---- MODULE Spec2Model ----
(***************************************************************************)
(* Job lifecycle of the orchestrator-bio service                           *)
(* (src/services/orchestrator_bio_api/main.py).                            *)
(*                                                                         *)
(* The jobs table is shared by every request handler.  A handler runs as   *)
(* a coroutine: the Python code between two awaits runs in one piece, but  *)
(* every await on the database (execute, flush, commit) is a point where   *)
(* other handlers run.  Each action below is one such piece.               *)
(*                                                                         *)
(* A job_type string is a sequence of atoms: the whitespace atom " " or a  *)
(* word without whitespace.                                                *)
(*                                                                         *)
(* The second part models the sites, hostnames and votes tables of the     *)
(* hyperlink-bio service (src/services/hyperlink_bio_api/main.py), with    *)
(* one action per request: the handler and the commit of get_session.      *)
(***************************************************************************)
EXTENDS Integers, Sequences, FiniteSets, TLC

\* ---------------------------------------------------------------- bounds
NumTicks == 2       \* concurrent POST /worker/tick callers
MaxJobs == 2        \* rows ever inserted into jobs
MaxClock == 2       \* largest reading of the logical clock
LeaseDuration == 1  \* the lease of the design (spec 4.2 step 5)
MaxSites == 2       \* ids ever drawn from the sites sequence
MaxHosts == 2       \* hostnames in one register request
MaxVotes == 2       \* rows ever inserted into votes

Ticks == 1..NumTicks

\* ------------------------------------------------------------- constants
\* nullable=True columns: started_at, finished_at hold NULL until written
NoTime == 0
\* last_error is a nullable Text column
None == "None"
\* the first reading of datetime.utcnow()
Epoch == 1

WS == " "

\* request bodies of POST /jobs: req.job_type
JobTypeInputs == { <<WS>>, <<WS, "unregistered_type", WS>> }

\* the job_type written by POST /scheduler/enqueue-nightly
NightlyType == <<"nightly_refresh">>

VARIABLES
    jobs,       \* the jobs table, indexed by id (autoincrement from 1)
    inflight,   \* enqueue requests that flushed their INSERT, not yet committed
    now,        \* the logical clock datetime.utcnow() reads
    pc,         \* pc[t]: where tick t is in _run_one_job
    job,        \* job[t]: j.id, the row tick t selected
    stamp,      \* stamp[t]: the timestamp tick t assigned, pending its commit
    loaded,     \* loaded[t]: what session2.get() loaded into j2
    result,     \* result[t]: how tick t's last call ended
    claimedBy,  \* claimedBy[i]: the ticks that committed queued -> running on job i
    sites,      \* the sites table (committed rows)
    hostnames,  \* the hostnames table (committed rows)
    votes,      \* the votes table, indexed by id
    nextSiteId, \* the next value of the sites id sequence
    regResp,    \* the response of the last POST /sites/register
    voteResp    \* the response of the last POST /votes

bioVars == <<sites, hostnames, votes, nextSiteId, regResp, voteResp>>

vars == <<jobs, inflight, now, pc, job, stamp, loaded, result, claimedBy, bioVars>>

\* ------------------------------------------------------------ str.strip()
RECURSIVE LStrip(_)
LStrip(s) == IF s # <<>> /\ Head(s) = WS THEN LStrip(Tail(s)) ELSE s

RECURSIVE RStrip(_)
RStrip(s) ==
    IF s # <<>> /\ s[Len(s)] = WS THEN RStrip(SubSeq(s, 1, Len(s) - 1)) ELSE s

Strip(s) == RStrip(LStrip(s))

\* ---------------------------------------------------------------- tables
JobIds == 1..Len(jobs)

\* a row is visible to other sessions once its INSERT is committed
Visible(i) == i \in JobIds /\ \A r \in inflight : r.job_id # i

\* Job(job_type=..., status="queued", ...) with the column defaults
NewJob(jt) ==
    [job_type |-> jt, status |-> "queued", created_at |-> now,
     started_at |-> NoTime, finished_at |-> NoTime, last_error |-> None]

\* a selection that also takes running rows
EligibleOrRunning(i) == Visible(i) /\ jobs[i].status \in {"queued", "running"}

\* WHERE Job.status == "queued"
Eligible(i) == Visible(i) /\ jobs[i].status = "queued"

\* select(Job).where(status == "queued").order_by(Job.id.asc()).limit(1);
\* 0 stands for scalar_one_or_none() returning None
SelectQueued ==
    IF \E i \in JobIds : Eligible(i)
    THEN CHOOSE i \in JobIds : Eligible(i) /\ \A k \in JobIds : Eligible(k) => i <= k
    ELSE 0

NoLoad == [status |-> None, finished_at |-> NoTime]

Init ==
    /\ jobs = <<>>
    /\ inflight = {}
    /\ now = Epoch
    /\ pc = [t \in Ticks |-> "idle"]
    /\ job = [t \in Ticks |-> 0]
    /\ stamp = [t \in Ticks |-> NoTime]
    /\ loaded = [t \in Ticks |-> NoLoad]
    /\ result = [t \in Ticks |-> "none"]
    /\ claimedBy = [i \in 1..MaxJobs |-> {}]
    /\ sites = {}
    /\ hostnames = {}
    /\ votes = <<>>
    /\ nextSiteId = 1
    /\ regResp = [status |-> "none"]
    /\ voteResp = [status |-> "none"]

tickVars == <<pc, job, stamp, loaded, result, claimedBy>>

\* -------------------------------------------------------------- the clock
Advance ==
    /\ now < MaxClock
    /\ now' = now + 1
    /\ UNCHANGED <<jobs, inflight, tickVars, bioVars>>

\* ---------------------------------------------------------------- enqueue
\* POST /jobs up to the flush: the INSERT is sent, the id is assigned
EnqueueJob(raw) ==
    /\ Len(jobs) < MaxJobs
    /\ jobs' = Append(jobs, NewJob(Strip(raw)))
    /\ inflight' = inflight \cup
            {[job_id |-> Len(jobs) + 1, op |-> "enqueue_job", job_type |-> raw]}
    /\ UNCHANGED <<now, tickVars, bioVars>>

\* POST /scheduler/enqueue-nightly up to the flush
EnqueueNightly ==
    /\ Len(jobs) < MaxJobs
    /\ jobs' = Append(jobs, NewJob(NightlyType))
    /\ inflight' = inflight \cup
            {[job_id |-> Len(jobs) + 1, op |-> "enqueue_nightly", job_type |-> NightlyType]}
    /\ UNCHANGED <<now, tickVars, bioVars>>

\* get_session: the handler returned {"ok": True, "job_id": j.id}; commit
SessionCommit(r) ==
    /\ r \in inflight
    /\ inflight' = inflight \ {r}
    /\ UNCHANGED <<jobs, now, tickVars, bioVars>>

\* ------------------------------------------------------------------- tick
\* line 147-150: the SELECT; without a queued row the tick returns False
Select(t) ==
    /\ pc[t] = "idle"
    /\ IF SelectQueued = 0
       THEN /\ result' = [result EXCEPT ![t] = "false"]
            /\ UNCHANGED <<pc, job>>
       ELSE /\ pc' = [pc EXCEPT ![t] = "selected"]
            /\ job' = [job EXCEPT ![t] = SelectQueued]
            /\ result' = [result EXCEPT ![t] = "none"]
    /\ UNCHANGED <<jobs, inflight, now, stamp, loaded, claimedBy, bioVars>>

\* line 151-152: j.status = "running"; j.started_at = datetime.utcnow()
StampClaim(t) ==
    /\ pc[t] = "selected"
    /\ stamp' = [stamp EXCEPT ![t] = now]
    /\ pc' = [pc EXCEPT ![t] = "claiming"]
    /\ UNCHANGED <<jobs, inflight, now, job, loaded, result, claimedBy, bioVars>>

\* a claim that stamps started_at and leaves the status alone
ClaimRowKeepsStatus(row, ts) == [row EXCEPT !.started_at = ts]

\* the UPDATE ... WHERE jobs.id = :id of the first session
ClaimRow(row, ts) == [row EXCEPT !.status = "running", !.started_at = ts]

\* line 153: await session.commit()
CommitClaim(t) ==
    /\ pc[t] = "claiming"
    /\ jobs' = [jobs EXCEPT ![job[t]] = ClaimRow(@, stamp[t])]
    /\ claimedBy' = [claimedBy EXCEPT ![job[t]] = @ \cup {t}]
    /\ pc' = [pc EXCEPT ![t] = "working"]
    /\ stamp' = [stamp EXCEPT ![t] = NoTime]
    /\ UNCHANGED <<inflight, now, job, loaded, result, bioVars>>

\* line 156-159: the sleep is over; j2 = await session2.get(Job, j.id).
\* No handler deletes a row, so j2 is never None (line 160-161).
Get(t) ==
    /\ pc[t] = "working"
    /\ loaded' = [loaded EXCEPT ![t] =
            [status |-> jobs[job[t]].status, finished_at |-> jobs[job[t]].finished_at]]
    /\ pc' = [pc EXCEPT ![t] = "loaded"]
    /\ UNCHANGED <<jobs, inflight, now, job, stamp, result, claimedBy, bioVars>>

\* line 162-163: j2.status = "success"; j2.finished_at = datetime.utcnow()
StampFinish(t) ==
    /\ pc[t] = "loaded"
    /\ stamp' = [stamp EXCEPT ![t] = now]
    /\ pc' = [pc EXCEPT ![t] = "finishing"]
    /\ UNCHANGED <<jobs, inflight, now, job, loaded, result, claimedBy, bioVars>>

\* a terminal write that stamps finished_at and leaves the status alone
FinishRowKeepsStatus(row, ld, ts) ==
    [row EXCEPT !.finished_at = IF ld.finished_at # ts THEN ts ELSE @]

\* the UPDATE of the second session: the unit of work writes the columns
\* whose new value differs from the loaded one
FinishRow(row, ld, ts) ==
    [row EXCEPT !.status = IF ld.status # "success" THEN "success" ELSE @,
                !.finished_at = IF ld.finished_at # ts THEN ts ELSE @]

\* line 164-165: await session2.commit(); return True
CommitFinish(t) ==
    /\ pc[t] = "finishing"
    /\ jobs' = [jobs EXCEPT ![job[t]] = FinishRow(@, loaded[t], stamp[t])]
    /\ pc' = [pc EXCEPT ![t] = "idle"]
    /\ job' = [job EXCEPT ![t] = 0]
    /\ stamp' = [stamp EXCEPT ![t] = NoTime]
    /\ loaded' = [loaded EXCEPT ![t] = NoLoad]
    /\ result' = [result EXCEPT ![t] = "true"]
    /\ UNCHANGED <<inflight, now, claimedBy, bioVars>>

\* the worker process dies between the claim's commit and the terminal
\* write (spec 4.2 step 5); an open transaction is rolled back
Crash(t) ==
    /\ pc[t] \in {"working", "loaded", "finishing"}
    /\ pc' = [pc EXCEPT ![t] = "idle"]
    /\ job' = [job EXCEPT ![t] = 0]
    /\ stamp' = [stamp EXCEPT ![t] = NoTime]
    /\ loaded' = [loaded EXCEPT ![t] = NoLoad]
    /\ result' = [result EXCEPT ![t] = "crashed"]
    /\ UNCHANGED <<jobs, inflight, now, claimedBy, bioVars>>

TickStep(t) ==
    \/ Select(t)
    \/ StampClaim(t)
    \/ CommitClaim(t)
    \/ Get(t)
    \/ StampFinish(t)
    \/ CommitFinish(t)

Requests ==
    \/ Advance
    \/ \E raw \in JobTypeInputs : EnqueueJob(raw)
    \/ EnqueueNightly
    \/ \E r \in inflight : SessionCommit(r)
    \/ \E t \in Ticks : TickStep(t)

Next ==
    \/ Requests
    \/ \E t \in Ticks : Crash(t)

Spec == Init /\ [][Next]_vars

\* ticks keep being invoked and every started tick runs on; no crash
FairSpec == Init /\ [][Requests]_vars /\ \A t \in Ticks : WF_vars(TickStep(t))

\* a tick with no concurrent caller: it runs while every other tick is idle
SeqTick(t) == (\A u \in Ticks \ {t} : pc[u] = "idle") /\ TickStep(t)

SeqNext ==
    \/ Advance
    \/ \E raw \in JobTypeInputs : EnqueueJob(raw)
    \/ EnqueueNightly
    \/ \E r \in inflight : SessionCommit(r)
    \/ \E t \in Ticks : SeqTick(t)

\* ticks are invoked one after the other
SeqSpec == Init /\ [][SeqNext]_vars

\* ------------------------------------------------------------ hyperlink-bio
orchVars == <<jobs, inflight, now, tickVars>>

\* str.lower() on the atoms the requests use
LowerAtom(a) ==
    CASE a = "Bio-A" -> "bio-a"
      [] a = "H1" -> "h1"
      [] OTHER -> a

Lower(s) == [k \in 1..Len(s) |-> LowerAtom(s[k])]

\* (hostname or "").strip().lower()
NormHost(hostname) == Lower(Strip(hostname))

\* (site_key or "").strip().lower()
NormSiteKey(site_key) == Lower(Strip(site_key))

\* an absent Optional[str] and "" are both falsy: the empty sequence
Absent == <<>>

SiteKeyInputs == { <<WS>>, <<"Bio-A">>, <<"bio-b", WS>> }
HostInputs == { <<WS>>, <<"H1">>, <<"h2">> }
NameInputs == { None, "Bob" }

\* payload.hostnames: the lists of at most MaxHosts hostnames
HostLists == UNION { [1..n -> HostInputs] : n \in 0..MaxHosts }

SiteRegister == [site_key : SiteKeyInputs, display_name : NameInputs, hostnames : HostLists]

VoteCreate ==
    [site_key : {Absent, <<"Bio-A">>}, hostname : {Absent, <<"H1">>},
     entity_type : {"song"}, entity_key : {"k1"},
     choice : {"up", "down"}, voter_id : {None, "v1"}]

SiteIds(S) == { x.id : x \in S }

\* the flush of one Hostname row raises IntegrityError: the hostname is
\* taken (unique=True) or its site_id names no row of sites (ForeignKey)
HostnameRejected(hn2, sid, tS, tH) ==
    \/ \E h \in tH : h.hostname = hn2
    \/ sid \notin SiteIds(tS)

\* the loop of register_site over payload.hostnames.  st.tS and st.tH are
\* the tables as the session's transaction sees them.  session.rollback()
\* drops everything the transaction wrote and expires the site object if
\* it is a persistent row; a site added in this request becomes transient
\* and keeps its attributes.  Reading site.id of an expired object needs a
\* reload: refreshed says whether that reload succeeds or raises.
RECURSIVE RegisterLoop(_, _, _, _)
RegisterLoop(hs, sid, refreshed, st) ==
    IF hs = <<>> \/ st.raised THEN st
    ELSE LET hn2 == NormHost(Head(hs)) IN
         IF hn2 = <<>> THEN RegisterLoop(Tail(hs), sid, refreshed, st)
         ELSE IF st.expired /\ ~refreshed
              THEN [st EXCEPT !.raised = TRUE]
         ELSE IF HostnameRejected(hn2, sid, st.tS, st.tH)
              THEN RegisterLoop(Tail(hs), sid, refreshed,
                        [tS |-> sites, tH |-> hostnames,
                         expired |-> sid \in SiteIds(sites), raised |-> FALSE])
         ELSE RegisterLoop(Tail(hs), sid, refreshed,
                        [st EXCEPT !.tH = @ \cup {[hostname |-> hn2, site_id |-> sid]},
                                   !.expired = FALSE])

\* line 112-122: the site row of the request, found or added and flushed
SiteOf(sk) == CHOOSE x \in sites : x.site_key = sk

SitesAfterUpsert(sk, name) ==
    IF \E x \in sites : x.site_key = sk
    THEN IF name # None
         THEN (sites \ {SiteOf(sk)}) \cup {[SiteOf(sk) EXCEPT !.display_name = name]}
         ELSE sites
    ELSE sites \cup {[id |-> nextSiteId, site_key |-> sk, display_name |-> name,
                      created_at |-> now]}

\* POST /sites/register, and get_session's commit (or rollback when the
\* handler raised)
RegisterSite(payload, refreshed) ==
    LET sk == NormSiteKey(payload.site_key)
        found == \E x \in sites : x.site_key = sk
        sid == IF found THEN SiteOf(sk).id ELSE nextSiteId
        fin == RegisterLoop(payload.hostnames, sid, refreshed,
                    [tS |-> SitesAfterUpsert(sk, payload.display_name),
                     tH |-> hostnames, expired |-> FALSE, raised |-> FALSE])
    IN  /\ IF sk = <<>>
           THEN /\ regResp' = [status |-> "400"]
                /\ UNCHANGED <<sites, hostnames, nextSiteId>>
           ELSE /\ found \/ nextSiteId <= MaxSites
                /\ nextSiteId' = IF found THEN nextSiteId ELSE nextSiteId + 1
                /\ IF fin.raised \/ (fin.expired /\ ~refreshed)
                   THEN /\ regResp' = [status |-> "500"]
                        /\ UNCHANGED <<sites, hostnames>>
                   ELSE /\ regResp' = [status |-> "ok", site_id |-> sid, site_key |-> sk]
                        /\ sites' = fin.tS
                        /\ hostnames' = fin.tH
        /\ UNCHANGED <<votes, voteResp, orchVars>>

\* _resolve_site_id: 0 stands for the HTTPException (404, or 400 when
\* neither site_key nor hostname is given)
ResolveSiteId(site_key, hostname) ==
    IF site_key # Absent
    THEN IF \E x \in sites : x.site_key = NormSiteKey(site_key)
         THEN SiteOf(NormSiteKey(site_key)).id ELSE 0
    ELSE IF hostname # Absent
    THEN IF \E h \in hostnames : h.hostname = NormHost(hostname)
         THEN (CHOOSE h \in hostnames : h.hostname = NormHost(hostname)).site_id ELSE 0
    ELSE 0

\* the natural key of uq_vote_site_entity_choice_voter
VoteKey(v) == <<v.site_id, v.entity_type, v.entity_key, v.choice, v.voter_id>>

\* the INSERT violates the unique constraint: a stored row has the same
\* key, and a NULL voter_id equals no voter_id (NULLs are distinct)
VoteRejected(v) ==
    /\ v.voter_id # None
    /\ \E k \in 1..Len(votes) : VoteKey(votes[k]) = VoteKey(v)

NewVote(payload, site_id) ==
    [site_id |-> site_id, entity_type |-> payload.entity_type,
     entity_key |-> payload.entity_key, choice |-> payload.choice,
     voter_id |-> payload.voter_id, created_at |-> now]

\* POST /votes, and get_session's commit
CreateVote(payload) ==
    LET site_id == ResolveSiteId(payload.site_key, payload.hostname)
        v == NewVote(payload, site_id)
    IN  /\ IF site_id = 0
           THEN /\ voteResp' = [status |-> "error"]
                /\ votes' = votes
           ELSE IF VoteRejected(v)
           THEN /\ voteResp' = [status |-> "ok", deduped |-> TRUE]
                /\ votes' = votes
           ELSE /\ Len(votes) < MaxVotes
                /\ votes' = Append(votes, v)
                /\ voteResp' = [status |-> "ok", id |-> Len(votes) + 1]
        /\ UNCHANGED <<sites, hostnames, nextSiteId, regResp, orchVars>>

SiteNext ==
    \E payload \in SiteRegister : \E refreshed \in BOOLEAN :
        RegisterSite(payload, refreshed)

\* the registrations of sites and hostnames
SiteSpec == Init /\ [][SiteNext]_vars

\* the registrations that set up the sites votes are cast on
SiteSetup == { p \in SiteRegister : p.display_name = None /\ Len(p.hostnames) <= 1 }

VoteNext ==
    \/ \E payload \in SiteSetup : \E refreshed \in BOOLEAN :
            RegisterSite(payload, refreshed)
    \/ \E payload \in VoteCreate : CreateVote(payload)

\* votes cast on registered sites
VoteSpec == Init /\ [][VoteNext]_vars

\* ----------------------------------------------------------------- claims
Terminal == {"success", "failed"}

IsTerminal(i) == jobs[i].status \in Terminal

\* tick t holds job i: it selected the row and has not returned yet
Holds(t, i) == pc[t] # "idle" /\ job[t] = i

\* tick t's terminal write is applied in this step
MarksTerminal(t) == pc[t] = "finishing" /\ pc'[t] = "idle" /\ result'[t] # "crashed"

\* C1: no job is moved queued -> running by more than one tick.
NoDoubleClaim == \A i \in 1..MaxJobs : Cardinality(claimedBy[i]) <= 1

\* the state machine of Job.status: a stays, or moves one edge forward
Forward(a, b) ==
    \/ a = b
    \/ a = "queued" /\ b = "running"
    \/ a = "running" /\ b \in Terminal

\* C2: in every step the stored status of a job stays or moves forward
\* along queued -> running -> success|failed.
ForwardOnly == [][\A i \in JobIds : Forward(jobs[i].status, jobs'[i].status)]_vars

\* C3: a terminal write on a job whose stored status is not running ends
\* in InvalidTransitionError and leaves the stored status as it was.
MarkTerminalGuarded ==
    [][\A t \in Ticks :
        (MarksTerminal(t) /\ jobs[job[t]].status # "running")
            => /\ result'[t] = "InvalidTransitionError"
               /\ jobs'[job[t]].status = jobs[job[t]].status]_vars

\* C4: a terminal job has created_at <= started_at <= finished_at.
TimestampsOrdered ==
    \A i \in JobIds :
        IsTerminal(i) => /\ jobs[i].created_at <= jobs[i].started_at
                         /\ jobs[i].started_at <= jobs[i].finished_at

\* C5: started_at is written once: it is set exactly when the job has left
\* queued, and once set no step changes it.
StartedAtOnce ==
    [][\A i \in JobIds :
        /\ (jobs[i].started_at # NoTime) <=> (jobs[i].status # "queued")
        /\ jobs[i].started_at # NoTime => jobs'[i].started_at = jobs[i].started_at]_vars

\* C6: finished_at is written once: it is unset while the job is queued or
\* running, and once set no step changes it.
FinishedAtOnce ==
    [][\A i \in JobIds :
        /\ jobs[i].status \in {"queued", "running"} => jobs[i].finished_at = NoTime
        /\ jobs[i].finished_at # NoTime => jobs'[i].finished_at = jobs[i].finished_at]_vars

\* C7: a job of an unregistered job_type that reached a terminal status is
\* failed with last_error "unknown job_type".
UnknownTypeFails ==
    \A i \in JobIds :
        (jobs[i].job_type = <<"unregistered_type">> /\ IsTerminal(i))
            => jobs[i].status = "failed" /\ jobs[i].last_error = "unknown job_type"

\* the job has been running for at least the lease
LeaseExpired(i) == now - jobs[i].started_at >= LeaseDuration

\* a running job no tick holds any more: its tick died after the claim
Abandoned(i) ==
    /\ Visible(i)
    /\ jobs[i].status = "running"
    /\ \A t \in Ticks : ~Holds(t, i)

\* C8: a running job that no tick holds any more (its tick crashed) and
\* whose lease has expired is eligible for the next claim.
ExpiredLeaseReclaimed ==
    \A i \in JobIds : (Abandoned(i) /\ LeaseExpired(i)) => Eligible(i)

\* C9: with ticks invoked again and again and no crash, every enqueued
\* job is eventually claimed and reaches a terminal status.
EveryJobFinishes ==
    \A i \in 1..MaxJobs :
        Eligible(i) ~> (i \in JobIds /\ claimedBy[i] # {} /\ IsTerminal(i))

EveryJobFinishesWitness ==
    \E i \in JobIds : \E t \in Ticks :
        /\ claimedBy[i] = {t}
        /\ IsTerminal(i) /\ result[t] = "true"
        /\ \E k \in JobIds : Eligible(k)

\* C10: no enqueue request whose job_type strips to the empty string gets
\* as far as inserting a row, and no stored job has an empty job_type.
EmptyJobTypeRejected ==
    /\ \A r \in inflight : r.op = "enqueue_job" => Strip(r.job_type) # <<>>
    /\ \A i \in JobIds : jobs[i].job_type # <<>>

\* tick t moves in this step
TickMoves(t) == pc'[t] # pc[t] \/ result'[t] # result[t]

\* C11: a tick that runs alone returns processed=true; the job it selected
\* is queued until its claim commits, running from then until its terminal
\* write, success after it, and last_error is still unset.
SequentialTickSucceeds ==
    [][\A t \in Ticks :
        pc[t] # "idle" =>
            /\ pc[t] \in {"selected", "claiming"} => jobs[job[t]].status = "queued"
            /\ pc[t] \in {"working", "loaded", "finishing"}
                    => jobs[job[t]].status = "running"
            /\ MarksTerminal(t) =>
                    /\ result'[t] = "true"
                    /\ jobs'[job[t]].status = "success"
                    /\ jobs'[job[t]].last_error = None]_vars

SequentialTickSucceedsWitness ==
    /\ Len(jobs) = 1 /\ inflight = {}
    /\ jobs[1].status = "success" /\ jobs[1].last_error = None
    /\ jobs[1].started_at # NoTime /\ jobs[1].finished_at # NoTime
    /\ \E t \in Ticks :
        /\ claimedBy[1] = {t} /\ result[t] = "true"
        /\ \A u \in Ticks \ {t} : result[u] = "none"

\* C13: when a tick moves a job from queued to running, no job with a
\* smaller id is queued (and visible) at that moment.
ClaimsOldestQueued ==
    [][\A t \in Ticks :
        (pc[t] = "claiming" /\ pc'[t] = "working" /\ jobs[job[t]].status = "queued")
            => \A k \in JobIds : k < job[t] => ~Eligible(k)]_vars

\* C14: a tick started when no stored job is queued returns processed=false
\* and changes no job; a step of a tick changes no row but the one the tick
\* selected, and the tick keeps that one row until it returns.
TickTouchesOneJob ==
    [][\A t \in Ticks :
        TickMoves(t) =>
            /\ (pc[t] = "idle" /\ \A i \in JobIds : jobs[i].status # "queued")
                    => result'[t] = "false" /\ pc'[t] = "idle" /\ jobs' = jobs
            /\ \A i \in JobIds :
                    jobs'[i] # jobs[i] => pc[t] # "idle" /\ i = job[t]
            /\ (pc[t] # "idle" /\ pc'[t] # "idle") => job'[t] = job[t]]_vars

TickTouchesOneJobWitness ==
    /\ jobs # <<>> /\ inflight = {}
    /\ \A i \in JobIds : IsTerminal(i)
    /\ \E t \in Ticks : result[t] = "false" /\ pc[t] = "idle"
    /\ \E t \in Ticks : result[t] = "true"

\* the natural key of the request is the key of a stored vote
KeyStored(payload) ==
    /\ ResolveSiteId(payload.site_key, payload.hostname) # 0
    /\ \E k \in 1..Len(votes) :
            VoteKey(votes[k]) =
                VoteKey(NewVote(payload, ResolveSiteId(payload.site_key, payload.hostname)))

\* C12: a POST /votes whose natural key is already stored answers ok and
\* leaves the votes table as it was, for every voter_id, NULL included.
VoteIdempotent ==
    [][\A payload \in VoteCreate :
        (KeyStored(payload) /\ CreateVote(payload))
            => voteResp'.status = "ok" /\ votes' = votes]_vars

\* C15: after register_site answered ok, the sites table holds a row with
\* the returned site_id and the normalized site_key.
RegisteredSitePersisted ==
    regResp.status = "ok" =>
        \E x \in sites : x.id = regResp.site_id /\ x.site_key = regResp.site_key

====
